---- MODULE Spec2Model ----
\* A model of the biotracker HTTP handlers (src/main.py): the compound catalog
\* (table "compounds"), the administration log (table "logs") and the request
\* handlers that read and write them.
EXTENDS Integers, Sequences, FiniteSets, Bags, TLC

VARIABLES
    compounds,  \* rows of table "compounds", in table order
    logs,       \* rows of table "logs", in table order
    sessions,   \* the add_compound requests between their SELECT and their INSERT, a bag
    last        \* the handler step taken last: the request and what it answered

vars == <<compounds, logs, sessions, last>>

----------------------------------------------------------------------------
\* Bounds of the model

\* Worker threads serving requests at the same time
NumWorkers == 2
\* Largest primary key the store hands out in table "compounds"
MaxCompoundId == 2
\* Largest primary key the store hands out in table "logs"
MaxLogId == 3

----------------------------------------------------------------------------
\* Strings are sequences of one-character strings

Digits == <<"0", "1", "2", "3", "4", "5", "6", "7", "8", "9">>

IsDigit(c) == \E d \in 1..10 : Digits[d] = c

DigitVal(c) == (CHOOSE d \in 1..10 : Digits[d] = c) - 1

\* str.replace(old, new) for a one-character old and a new of length 0 or 1
RECURSIVE replace(_, _, _)
replace(s, old, new) ==
    IF s = <<>> THEN <<>>
    ELSE (IF Head(s) = old THEN new ELSE <<Head(s)>>) \o replace(Tail(s), old, new)

\* int() of the digits s[from..to]
RECURSIVE Num(_, _, _)
Num(s, from, to) ==
    IF to < from THEN 0 ELSE 10 * Num(s, from, to - 1) + DigitVal(s[to])

IsLeap(y) == (y % 4 = 0 /\ y % 100 # 0) \/ y % 400 = 0

DaysInMonth(y, m) ==
    IF m = 2 THEN (IF IsLeap(y) THEN 29 ELSE 28)
    ELSE IF m \in {4, 6, 9, 11} THEN 30 ELSE 31

\* A datetime is <<year, month, day, hour, minute, second, microsecond>>
NoDatetime == <<0, 0, 0, 0, 0, 0, 0>>

\* datetime.strptime(s, '%Y-%m-%d %H:%M:%S') on the two-digit, zero-padded
\* form of every field: [ok |-> FALSE] stands for ValueError.
strptime(s) ==
    LET shaped == /\ Len(s) = 19
                  /\ \A i \in {1, 2, 3, 4, 6, 7, 9, 10, 12, 13, 15, 16, 18, 19} : IsDigit(s[i])
                  /\ s[5] = "-" /\ s[8] = "-" /\ s[11] = " "
                  /\ s[14] = ":" /\ s[17] = ":"
    IN  IF ~shaped THEN [ok |-> FALSE, dt |-> NoDatetime]
        ELSE LET y  == Num(s, 1, 4)
                 mo == Num(s, 6, 7)
                 d  == Num(s, 9, 10)
                 h  == Num(s, 12, 13)
                 mi == Num(s, 15, 16)
                 se == Num(s, 18, 19)
                 valid == /\ y >= 1
                          /\ mo \in 1..12
                          /\ d >= 1 /\ d <= DaysInMonth(y, mo)
                          /\ h <= 23 /\ mi <= 59 /\ se <= 59
             IN  IF valid THEN [ok |-> TRUE, dt |-> <<y, mo, d, h, mi, se, 0>>]
                 ELSE [ok |-> FALSE, dt |-> NoDatetime]

\* The try block of save_log: clean the text, pad the seconds, parse
parse_timestamp(text) ==
    LET clean_ts == replace(replace(text, "Z", <<>>), "T", <<" ">>)
        padded   == IF Len(clean_ts) = 16 THEN clean_ts \o <<":", "0", "0">> ELSE clean_ts
    IN  strptime(padded)

\* Order of datetimes: a before b
RECURSIVE DtBeforeFrom(_, _, _)
DtBeforeFrom(a, b, i) ==
    IF i > 7 THEN FALSE
    ELSE IF a[i] # b[i] THEN a[i] < b[i]
    ELSE DtBeforeFrom(a, b, i + 1)

DtBefore(a, b) == DtBeforeFrom(a, b, 1)

----------------------------------------------------------------------------
\* Rows

\* class Compound; category is always "P" (add_compound)
Compound(id, name, half_life_hours, min_threshold) ==
    [id |-> id, name |-> name, half_life_hours |-> half_life_hours,
     category |-> "P", min_threshold |-> min_threshold]

\* class InjectionLog
InjectionLog(id, compound_name, mcg, timestamp) ==
    [id |-> id, compound_name |-> compound_name, mcg |-> mcg, timestamp |-> timestamp]

\* The primary keys the store may give a new row: SQLite gives max(id) + 1,
\* PostgreSQL the next value of a sequence, which skips ids already used.
FreshIds(rows, maxId) ==
    {i \in 1..maxId : \A k \in 1..Len(rows) : rows[k].id < i}

\* Compound.name is unique=True: the store refuses a second row of that name
NoUniqueConstraint(rows, name) == FALSE

UniqueViolation(rows, name) == \E k \in 1..Len(rows) : rows[k].name = name

\* db.query(Compound).filter(Compound.name == name).first()
first_by_name(rows, name) == {k \in 1..Len(rows) : rows[k].name = name}

\* db.query(...).filter(... .id == id).delete(): the rows left
RowsWithout(rows, id) ==
    LET Keep(r) == r.id # id IN SelectSeq(rows, Keep)

\* the rows matched by the filter on id
RowsMatching(rows, id) ==
    LET Hit(r) == r.id = id IN SelectSeq(rows, Hit)

\* The orders of the rows a query may return
Orders(rows) ==
    LET n == Len(rows)
        perms == {f \in [1..n -> 1..n] : \A i, j \in 1..n : f[i] = f[j] => i = j}
    IN  {[i \in 1..n |-> rows[f[i]]] : f \in perms}

\* the same query ordered the other way round
order_by_timestamp_asc(rows) ==
    {r \in Orders(rows) :
        \A i \in 1..Len(r) - 1 : ~DtBefore(r[i + 1].timestamp, r[i].timestamp)}

\* order_by(InjectionLog.timestamp.desc()): every order of the rows in which no
\* row comes before a row of a later timestamp. SQL leaves the order of rows of
\* equal timestamp to the store.
order_by_timestamp_desc(rows) ==
    {r \in Orders(rows) :
        \A i \in 1..Len(r) - 1 : ~DtBefore(r[i].timestamp, r[i + 1].timestamp)}

----------------------------------------------------------------------------
\* Requests

\* timestamp: str = Query(None)
NoTimestamp == [supplied |-> FALSE, text |-> <<>>]

Supplied(text) == [supplied |-> TRUE, text |-> text]

\* "2024-01-01T08:00", the form of an HTML datetime-local field
TextT1 == <<"2", "0", "2", "4", "-", "0", "1", "-", "0", "1", "T", "0", "8", ":", "0", "0">>
\* "2024-01-01 09:00:00"
TextT2 == <<"2", "0", "2", "4", "-", "0", "1", "-", "0", "1", " ", "0", "9", ":", "0", "0", ":", "0", "0">>
\* "2024-01-01T10:00:00Z"
TextT3 == <<"2", "0", "2", "4", "-", "0", "1", "-", "0", "1", "T", "1", "0", ":", "0", "0", ":", "0", "0", "Z">>
\* "2024-01-01 09:00", the same instant as TextT2
TextT2Minute == <<"2", "0", "2", "4", "-", "0", "1", "-", "0", "1", " ", "0", "9", ":", "0", "0">>
\* "01/01/2024 10:00", not a date-time of the accepted form
TextBad == <<"0", "1", "/", "0", "1", "/", "2", "0", "2", "4", " ", "1", "0", ":", "0", "0">>
\* "2024-02-30 10:00:00", a day that does not exist
TextNoSuchDay == <<"2", "0", "2", "4", "-", "0", "2", "-", "3", "0", " ", "1", "0", ":", "0", "0", ":", "0", "0">>

T1 == <<2024, 1, 1, 8, 0, 0, 0>>
T2 == <<2024, 1, 1, 9, 0, 0, 0>>
T3 == <<2024, 1, 1, 10, 0, 0, 0>>

\* Values of datetime.now()
Now1 == <<2024, 1, 1, 9, 30, 0, 123456>>
Now2 == <<2024, 1, 2, 7, 0, 0, 654321>>

Timestamps ==
    {NoTimestamp, Supplied(<<>>), Supplied(TextT1), Supplied(TextT2), Supplied(TextT3),
     Supplied(TextT2Minute), Supplied(TextBad), Supplied(TextNoSuchDay)}

Nows == {Now1, Now2}

Names == {"a", "b"}

HalfLives == {0, 4}

Doses == {100}

\* The step no handler has taken yet
NoLast ==
    [op |-> "start", status |-> "", id |-> 0, name |-> "", half_life |-> 0,
     timestamp |-> NoTimestamp, now |-> NoDatetime, rowcount |-> 0, body |-> <<>>]

----------------------------------------------------------------------------
\* Handlers

\* GET /api/compounds
get_compounds ==
    /\ last' = [NoLast EXCEPT !.op = "get_compounds", !.status = "ok", !.body = compounds]
    /\ UNCHANGED <<compounds, logs, sessions>>

\* POST /api/compounds/add, line 69: the SELECT by name, on a free worker
\* thread. A name found answers ok at once; otherwise the request goes on to
\* its INSERT.
add_compound_select(name, half_life, threshold) ==
    /\ BagCardinality(sessions) < NumWorkers
    /\ IF first_by_name(compounds, name) # {}
       THEN /\ last' = [NoLast EXCEPT !.op = "add_compound", !.status = "ok",
                                      !.name = name, !.half_life = half_life]
            /\ UNCHANGED sessions
       ELSE /\ last' = [NoLast EXCEPT !.op = "add_compound", !.status = "running",
                                      !.name = name, !.half_life = half_life]
            /\ sessions' = sessions (+) SetToBag({[name |-> name, half_life |-> half_life,
                                                  threshold |-> threshold]})
    /\ UNCHANGED <<compounds, logs>>

\* POST /api/compounds/add, lines 70-72: db.add, db.commit, the answer. The
\* commit raises IntegrityError when the unique constraint on name refuses the row.
add_compound_commit(s) ==
    /\ BagIn(s, sessions)
    /\ sessions' = sessions (-) SetToBag({s})
    /\ IF UniqueViolation(compounds, s.name)
       THEN /\ last' = [NoLast EXCEPT !.op = "add_compound", !.status = "IntegrityError",
                                      !.name = s.name, !.half_life = s.half_life]
            /\ UNCHANGED compounds
       ELSE /\ \E id \in FreshIds(compounds, MaxCompoundId) :
                    compounds' = Append(compounds,
                                        Compound(id, s.name, s.half_life, s.threshold))
            /\ last' = [NoLast EXCEPT !.op = "add_compound", !.status = "ok",
                                      !.name = s.name, !.half_life = s.half_life]
    /\ UNCHANGED logs

\* a delete that also removes the log entries naming the compound
delete_compound_cascade(id) ==
    LET gone == RowsMatching(compounds, id)
        Keep(l) == \A k \in 1..Len(gone) : gone[k].name # l.compound_name
    IN  /\ compounds' = RowsWithout(compounds, id)
        /\ logs' = SelectSeq(logs, Keep)
        /\ last' = [NoLast EXCEPT !.op = "delete_compound", !.status = "ok", !.id = id,
                                  !.rowcount = Len(gone),
                                  !.name = IF gone = <<>> THEN "" ELSE gone[1].name]
        /\ UNCHANGED sessions

\* DELETE /api/compounds/{id}; last.name is the name of the row deleted
delete_compound(id) ==
    LET gone == RowsMatching(compounds, id)
    IN  /\ compounds' = RowsWithout(compounds, id)
        /\ last' = [NoLast EXCEPT !.op = "delete_compound", !.status = "ok", !.id = id,
                                  !.rowcount = Len(gone),
                                  !.name = IF gone = <<>> THEN "" ELSE gone[1].name]
        /\ UNCHANGED <<logs, sessions>>

\* GET /api/logs
get_logs ==
    /\ \E body \in order_by_timestamp_desc(logs) :
            last' = [NoLast EXCEPT !.op = "get_logs", !.status = "ok", !.body = body]
    /\ UNCHANGED <<compounds, logs, sessions>>

\* lines 89-101 of save_log: the datetime stored
dt_obj(timestamp, now) ==
    IF timestamp.supplied /\ timestamp.text # <<>>
    THEN LET parsed == parse_timestamp(timestamp.text)
         IN  IF parsed.ok THEN parsed.dt ELSE now
    ELSE now

\* POST /api/logs
save_log(name, dose, timestamp, now) ==
    /\ \E id \in FreshIds(logs, MaxLogId) :
            logs' = Append(logs, InjectionLog(id, name, dose, dt_obj(timestamp, now)))
    /\ last' = [NoLast EXCEPT !.op = "save_log", !.status = "ok", !.name = name,
                              !.timestamp = timestamp, !.now = now]
    /\ UNCHANGED <<compounds, sessions>>

\* DELETE /api/logs/{id}
delete_log(id) ==
    /\ logs' = RowsWithout(logs, id)
    /\ last' = [NoLast EXCEPT !.op = "delete_log", !.status = "ok", !.id = id,
                              !.rowcount = Len(RowsMatching(logs, id))]
    /\ UNCHANGED <<compounds, sessions>>

----------------------------------------------------------------------------
\* Specifications

\* The whole program: every handler, add_compound requests of several workers
\* interleaved between their SELECT and their INSERT.
Init ==
    /\ compounds = <<>>
    /\ logs = <<>>
    /\ sessions = EmptyBag
    /\ last = NoLast

Next ==
    \/ \E name \in Names, half_life \in HalfLives : add_compound_select(name, half_life, 0)
    \/ \E s \in BagToSet(sessions) : add_compound_commit(s)
    \/ \E id \in 1..MaxCompoundId : delete_compound(id)
    \/ get_compounds
    \/ \E timestamp \in {NoTimestamp, Supplied(TextBad)} : save_log("a", 100, timestamp, Now1)
    \/ \E id \in 1..MaxLogId : delete_log(id)
    \/ get_logs

Spec == Init /\ [][Next]_vars

\* The administration log alone, over a catalog left by earlier requests
PersistedCatalogs == {<<>>, <<Compound(1, "a", 4, 0)>>}

InitLog ==
    /\ compounds \in PersistedCatalogs
    /\ logs = <<>>
    /\ sessions = EmptyBag
    /\ last = NoLast

NextLog ==
    \/ \E dose \in Doses, timestamp \in Timestamps, now \in Nows :
            save_log("a", dose, timestamp, now)
    \/ \E id \in 1..MaxLogId : delete_log(id)
    \/ get_logs

SpecLog == InitLog /\ [][NextLog]_vars

----------------------------------------------------------------------------
\* Properties

HasName(rows, name) == \E k \in 1..Len(rows) : rows[k].name = name

HasId(rows, id) == \E k \in 1..Len(rows) : rows[k].id = id

\* The place of a row in its table: rows inserted earlier come first
PlaceIn(rows, row) == CHOOSE k \in 1..Len(rows) : rows[k] = row

\* C1: an add_compound request for a name already in the catalog is answered
\* with the DuplicateName error and leaves the catalog as it was.
C1_AddRejectsDuplicate ==
    [][(/\ last'.op = "add_compound"
        /\ last'.status # "running"
        /\ HasName(compounds, last'.name))
       => (last'.status = "DuplicateName" /\ compounds' = compounds)]_vars

\* C2: no two catalog entries share a name, in every state reached by any
\* sequence of add_compound, delete_compound, save_log and delete_log requests,
\* the SELECT and the INSERT of concurrent add_compound requests interleaved.
C2_UniqueNames ==
    \A i, j \in 1..Len(compounds) : compounds[i].name = compounds[j].name => i = j

\* Two add_compound requests for one name both passed their SELECT; the first
\* INSERT is committed and the second has just been refused.
C2_Witness ==
    /\ last.op = "add_compound"
    /\ last.status = "IntegrityError"
    /\ HasName(compounds, last.name)

\* C3: deleting a compound id or a log id that does not exist answers with the
\* NotFound error and leaves the catalog and the log as they were.
C3_DeleteMissingNotFound ==
    [][(\/ last'.op = "delete_compound" /\ ~HasId(compounds, last'.id)
        \/ last'.op = "delete_log" /\ ~HasId(logs, last'.id))
       => (last'.status = "NotFound" /\ compounds' = compounds /\ logs' = logs)]_vars

\* C4: get_logs returns exactly the entries stored, each once, in
\* non-increasing order of timestamp; entries of timestamps T1 < T2 < T3 come
\* back as T3, T2, T1 whatever the order they were inserted in.
C4_LogsDescending ==
    last.op = "get_logs" =>
        /\ Len(last.body) = Len(logs)
        /\ \A k \in 1..Len(logs) :
                Cardinality({i \in 1..Len(last.body) : last.body[i] = logs[k]}) = 1
        /\ \A i, j \in 1..Len(last.body) :
                i < j => ~DtBefore(last.body[i].timestamp, last.body[j].timestamp)

\* Entries inserted in the order T2, T1, T3 have been listed as T3, T2, T1
C4_Witness ==
    /\ last.op = "get_logs"
    /\ Len(logs) = 3
    /\ <<logs[1].timestamp, logs[2].timestamp, logs[3].timestamp>> = <<T2, T1, T3>>
    /\ Len(last.body) = 3
    /\ <<last.body[1].timestamp, last.body[2].timestamp, last.body[3].timestamp>>
           = <<T3, T2, T1>>

\* C5: entries of equal timestamp are returned by get_logs in the order they
\* were inserted in, the entry inserted earlier first.
C5_TiesInInsertionOrder ==
    last.op = "get_logs" =>
        \A i, j \in 1..Len(last.body) :
            (i < j /\ last.body[i].timestamp = last.body[j].timestamp)
                => PlaceIn(logs, last.body[i]) < PlaceIn(logs, last.body[j])

\* C6: a save_log request whose supplied (non-empty) timestamp does not parse
\* as a date-time fails with InvalidTimestamp and creates no log entry; the current
\* time does not take the place of the bad timestamp.
C6_BadTimestampRejected ==
    [][(/\ last'.op = "save_log"
        /\ last'.timestamp.supplied
        /\ last'.timestamp.text # <<>>
        /\ ~parse_timestamp(last'.timestamp.text).ok)
       => (last'.status = "InvalidTimestamp" /\ logs' = logs)]_vars

\* C7: delete_compound leaves the administration log as it was, so the entries
\* naming the deleted compound remain.
C7_DeleteCompoundKeepsLogs ==
    [][last'.op = "delete_compound" => logs' = logs]_vars

\* A compound has just been deleted and the log holds an entry naming it
C7_Witness ==
    /\ last.op = "delete_compound"
    /\ last.rowcount = 1
    /\ ~HasName(compounds, last.name)
    /\ \E k \in 1..Len(logs) : logs[k].compound_name = last.name

\* C8: an add_compound request whose half-life is not greater than 0 is
\* answered with InvalidParameter, and no catalog entry has half_life_hours <= 0.
C8_PositiveHalfLife ==
    /\ (last.op = "add_compound" /\ last.status # "running" /\ last.half_life <= 0)
            => last.status = "InvalidParameter"
    /\ \A k \in 1..Len(compounds) : compounds[k].half_life_hours > 0

\* C10: save_log appends exactly one log entry and leaves the catalog as it
\* was; the entry's timestamp is the supplied date-time when one is supplied and
\* parses (a 16-character value gets seconds 00), and is the submission time
\* only when no timestamp is supplied; the compound named need not be in the catalog.
C10_SaveLogTimestamp ==
    [][last'.op = "save_log" =>
        /\ Len(logs') = Len(logs) + 1
        /\ SubSeq(logs', 1, Len(logs)) = logs
        /\ compounds' = compounds
        /\ LET entry == logs'[Len(logs')]
               ts    == last'.timestamp
               parsed == parse_timestamp(ts.text)
           IN  /\ entry.compound_name = last'.name
               /\ (ts.supplied /\ parsed.ok) => entry.timestamp = parsed.dt
               /\ ~ts.supplied => entry.timestamp = last'.now
               /\ entry.timestamp = last'.now => ~(ts.supplied /\ ts.text # <<>>)]_vars

====
